---- MODULE Spec2Model ----
(***************************************************************************)
(* The Kubernetes Watcher of lib/k8s/watcher.go: a registry of watches,    *)
(* each an informer (list-then-watch Reflector plus Local Store) with a    *)
(* listener, started together by Start, written through by UpdateStatus.   *)
(*                                                                         *)
(* The informer itself (cache.NewInformer of client-go) is not part of the *)
(* repository; it is modelled from section 4.2 of the specification: the   *)
(* initial listing is fed to the Store item by item through the add        *)
(* handler, readiness (HasSynced) becomes true once the whole listing has  *)
(* been processed and before any stream event, and never reverts.          *)
(***************************************************************************)
EXTENDS Integers, Sequences, FiniteSets, TLC

\* ---------------------------------------------------------------- bounds
\* remote mutations (add / modify / delete / status update) after Init
MaxRemote == 2
\* calls of Start over all callers
MaxStarts == 2
\* calls of UpdateStatus
MaxUpdates == 1
\* registered watches
MaxWatches == 2
\* calls of List and Get whose results a caller goes on to change
MaxQueries == 1

\* ------------------------------------------------------------- universes
Kinds == {"widgets", "gadgets"}
AllNamespaces == ""
Namespaces == {AllNamespaces, "ns-a"}

\* watchKey{gvr, Namespace}
watchKey(kind, ns) == <<kind, ns>>
Keys == {watchKey("widgets", AllNamespaces), watchKey("widgets", "ns-a"),
         watchKey("gadgets", AllNamespaces)}

\* remote objects: identity (namespace, name) and kind are fixed per object
Objs == {"A", "B", "C"}
KindOf(o) == "widgets"
NsOf(o) == IF o = "B" THEN "ns-b" ELSE "ns-a"

Listeners == {"L1", "L2"}
\* the listeners the registrations of Spec draw from
SpecListeners == {"L1"}
NoWatch == "none"
Callers == {"c1", "c2"}
\* the callers are interchangeable: the first call of Start is taken to be c1's
FirstCaller == "c1"
Free == "free"

\* version tokens: 0 stands for "no such object"; the initial collection
\* uses the first ones, every remote mutation takes the next one
Absent == 0
FullColl == [o \in Objs |-> CASE o = "A" -> 1 [] o = "B" -> 2 [] OTHER -> Absent]
FirstToken == 1 + Cardinality({o \in Objs : FullColl[o] # Absent})
MaxToken == FirstToken + MaxRemote - 1

EmptyColl == [o \in Objs |-> Absent]
InitialColls == {EmptyColl, FullColl}

VARIABLES
    watches,      \* Watcher.watches: key -> listener, NoWatch when not in the map
    started,      \* Watcher.started
    mutex,        \* Watcher.mutex: Free or the holder
    stop,         \* Watcher.stop closed
    wg,           \* Watcher.wg counter
    store,        \* watch.store per key: object -> token (Absent when not held)
    synced,       \* informerController.HasSynced per key
    rpc,          \* position of each runner goroutine
    initq,        \* items of the initial listing not yet processed
    listed,       \* the initial listing each Reflector obtained
    stream,       \* events of the open watch stream, per key
    server,       \* the remote collections: object -> token
    nextRV,       \* the next version token the server issues
    spc,          \* position of each Start caller
    todo,         \* watches the final loop of Start has still to invoke
    starter,      \* the caller that set started
    nstarts,      \* Start calls made
    stpc,         \* position of the Stop caller
    wpc,          \* position of each caller inside Wait
    upc,          \* position of the UpdateStatus caller
    uarg,         \* the resource the last UpdateStatus call was given
    ures,         \* the object the remote status update returned
    uret,         \* what the last UpdateStatus call returned
    remoteCalls,  \* remote status update calls issued
    nupdates,     \* UpdateStatus calls made
    quiet,        \* keys that processed no listing item and no event for the
                  \* returned object since the last successful UpdateStatus returned
    active,       \* invokers that are inside a listener
    evInvoked,    \* listener invocations made from event handlers, per key
    evExpected,   \* events that had to notify, per key
    startInvoked, \* listener invocations made from Start, per key
    launches,     \* runner goroutines launched, per key
    wgAdded,      \* total raised on wg by Start
    held,         \* (key, object): Resources the last query returned that are
                  \* still the objects the Store holds
    mutated,      \* (key, object): Store entries whose object a caller changed
    nqueries,     \* List and Get calls made
    called,       \* (key, listener): the listeners invoke has called
    replaced      \* (key, listener): Watch Entries a later registration of
                  \* their key put out of the map

registryVars == <<watches, started, mutex, stop, wg, store, synced>>
reflectorVars == <<rpc, initq, listed, stream>>
remoteVars == <<server, nextRV>>
startVars == <<spc, todo, starter, nstarts>>
stopVars == <<stpc, wpc>>
updateVars == <<upc, uarg, ures, uret, remoteCalls, nupdates, quiet>>
countVars == <<active, evInvoked, evExpected, startInvoked, launches, wgAdded>>
queryVars == <<held, mutated, nqueries>>
entryVars == <<called, replaced>>
vars == <<registryVars, reflectorVars, remoteVars, startVars, stopVars, updateVars, countVars,
          queryVars, entryVars>>

Registered == {k \in Keys : watches[k] # NoWatch}

NoResult == [kind |-> "none"]

\* NewWatcher
Init ==
    /\ watches = [k \in Keys |-> NoWatch]
    /\ started = FALSE
    /\ mutex = Free
    /\ stop = FALSE
    /\ wg = 0
    /\ store = [k \in Keys |-> EmptyColl]
    /\ synced = [k \in Keys |-> FALSE]
    /\ rpc = [k \in Keys |-> "new"]
    /\ initq = [k \in Keys |-> {}]
    /\ listed = [k \in Keys |-> EmptyColl]
    /\ stream = [k \in Keys |-> <<>>]
    /\ server \in InitialColls
    /\ nextRV = FirstToken
    /\ spc = [c \in Callers |-> "idle"]
    /\ todo = [c \in Callers |-> {}]
    /\ starter = NoWatch
    /\ nstarts = 0
    /\ stpc = "idle"
    /\ wpc = [c \in Callers |-> "none"]
    /\ upc = "idle"
    /\ uarg = NoWatch
    /\ ures = NoResult
    /\ uret = NoResult
    /\ remoteCalls = 0
    /\ nupdates = 0
    /\ quiet = {}
    /\ active = {}
    /\ evInvoked = [k \in Keys |-> 0]
    /\ evExpected = [k \in Keys |-> 0]
    /\ startInvoked = [k \in Keys |-> 0]
    /\ launches = [k \in Keys |-> 0]
    /\ wgAdded = 0
    /\ held = {}
    /\ mutated = {}
    /\ nqueries = 0
    /\ called = {}
    /\ replaced = {}

\* the Store of key k puts new objects in the place of those of the objects
\* of S (or drops them): what a caller holds of them is no longer in the Store
Replaced(k, S) ==
    /\ held' = held \ ({k} \X S)
    /\ mutated' = mutated \ ({k} \X S)
    /\ UNCHANGED nqueries

\* ------------------------------------------------------------ registration
\* WatchInternal, lines 91-94: the handle the informer lists and watches.
\* Namespace(ns) is applied only when ns is empty, so the handle is
\* cluster-wide for every registration.
Watched(ns) == IF ns = AllNamespaces THEN ns ELSE AllNamespaces

InScope(o, scope) == scope = AllNamespaces \/ NsOf(o) = scope

\* the objects the informer of key k lists and watches
Covers(k, o) == KindOf(o) = k[1] /\ InScope(o, Watched(k[2]))

\* variant: a key that is already in the map keeps its first entry
Insert_KeepFirst(k, listener) ==
    IF watches[k] # NoWatch THEN watches ELSE [watches EXCEPT ![k] = listener]

\* WatchInternal, lines 137-143: w.watches[watchKey{gvr, namespace}] = watch{...}
Insert(k, listener) == [watches EXCEPT ![k] = listener]

\* WatchInternal: a fresh informer and store under watchKey{gvr, namespace};
\* registration is done before Start
WatchInternal(kind, ns, listener) ==
    LET k == watchKey(kind, ns) IN
    /\ k \in Keys
    /\ ~started
    /\ k \in Registered \/ Cardinality(Registered) < MaxWatches
    /\ watches[k] # listener
    /\ watches' = Insert(k, listener)
    /\ replaced' = IF k \in Registered THEN replaced \cup {<<k, watches[k]>>} ELSE replaced
    /\ UNCHANGED called
    /\ store' = [store EXCEPT ![k] = EmptyColl]
    /\ synced' = [synced EXCEPT ![k] = FALSE]
    /\ UNCHANGED <<started, mutex, stop, wg>>
    /\ UNCHANGED <<reflectorVars, remoteVars, startVars, stopVars, updateVars, countVars>>
    /\ Replaced(watchKey(kind, ns), Objs)

\* ------------------------------------------------------------------ invoke
\* informerController.HasSynced
HasSynced(k) == synced[k]

\* variant: invoke without taking the mutex
invokeLock_NoLock(who) == TRUE

\* invoke, line 98: w.mutex.Lock()
invokeLock(who) == mutex = Free

\* invoke, line 101: the listener the closure of the entry under k calls
Listener(k) == watches[k]

\* variant: invoke without the readiness test
InvokeEnter_NoGate(who, k) ==
    /\ invokeLock(who)
    /\ mutex' = who /\ active' = active \cup {who}
    /\ called' = called \cup {<<k, Listener(k)>>}
    /\ UNCHANGED replaced

\* invoke, lines 98-101: take the mutex and call the listener when the
\* watch has synced; otherwise the mutex is released again at once
InvokeEnter(who, k) ==
    /\ invokeLock(who)
    /\ IF HasSynced(k)
       THEN /\ mutex' = who /\ active' = active \cup {who}
            /\ called' = called \cup {<<k, Listener(k)>>}
       ELSE /\ mutex' = mutex /\ active' = active
            /\ called' = called
    /\ UNCHANGED replaced

\* invoke, line 99: the listener returned, the deferred Unlock runs
InvokeExit(who) ==
    /\ mutex' = Free
    /\ active' = active \ {who}

\* ------------------------------------------------------------------- Start
\* variant: Start without the started test
StartedCheck_Never == FALSE

\* Start, line 150: if w.started
StartedCheck == started

\* Start, lines 149-156, called directly or from Wait; a caller that is
\* inside Wait makes no other call
StartEnter(c) ==
    /\ spc[c] \in {"idle", "returned"}
    /\ wpc[c] # "start"
    /\ c = FirstCaller \/ nstarts > 0
    /\ nstarts < MaxStarts
    /\ mutex = Free
    /\ nstarts' = nstarts + 1
    /\ IF StartedCheck
       THEN /\ spc' = [spc EXCEPT ![c] = "returned"]
            /\ UNCHANGED <<started, starter>>
       ELSE /\ started' = TRUE
            /\ starter' = c
            /\ spc' = [spc EXCEPT ![c] = "add"]
    /\ UNCHANGED <<watches, mutex, stop, wg, store, synced, todo>>
    /\ UNCHANGED <<reflectorVars, remoteVars, updateVars, countVars>>
    /\ UNCHANGED queryVars
    /\ UNCHANGED entryVars

\* Start called by its caller
StartCall(c) == StartEnter(c) /\ UNCHANGED stopVars

\* Start, line 158: w.wg.Add(len(w.watches))
StartAdd(c) ==
    /\ spc[c] = "add"
    /\ wg' = wg + Cardinality(Registered)
    /\ wgAdded' = wgAdded + Cardinality(Registered)
    /\ spc' = [spc EXCEPT ![c] = "launch"]
    /\ UNCHANGED <<watches, started, mutex, stop, store, synced>>
    /\ UNCHANGED <<todo, starter, nstarts>>
    /\ UNCHANGED <<active, evInvoked, evExpected, startInvoked, launches>>
    /\ UNCHANGED <<reflectorVars, remoteVars, stopVars, updateVars>>
    /\ UNCHANGED queryVars
    /\ UNCHANGED entryVars

\* Start, lines 159-161: go watch.runner() for every watch
StartLaunch(c) ==
    /\ spc[c] = "launch"
    /\ rpc' = [k \in Keys |-> IF k \in Registered THEN "list" ELSE rpc[k]]
    /\ launches' = [k \in Keys |-> IF k \in Registered THEN launches[k] + 1 ELSE launches[k]]
    /\ spc' = [spc EXCEPT ![c] = "wait"]
    /\ UNCHANGED <<initq, listed, stream>>
    /\ UNCHANGED <<todo, starter, nstarts>>
    /\ UNCHANGED <<active, evInvoked, evExpected, startInvoked, wgAdded>>
    /\ UNCHANGED <<registryVars, remoteVars, stopVars, updateVars>>
    /\ UNCHANGED queryVars
    /\ UNCHANGED entryVars

\* variant: Start without its final loop
StartTodo_None == {}

\* Start, line 171: the watches the final loop ranges over
StartTodo == Registered

\* Start, lines 163-167: WaitForCacheSync returned true
StartSynced(c) ==
    /\ spc[c] = "wait"
    /\ \A k \in Registered : HasSynced(k)
    /\ spc' = [spc EXCEPT ![c] = "invoke"]
    /\ todo' = [todo EXCEPT ![c] = StartTodo]
    /\ UNCHANGED <<starter, nstarts>>
    /\ UNCHANGED <<registryVars, reflectorVars, remoteVars, stopVars, updateVars, countVars>>
    /\ UNCHANGED queryVars
    /\ UNCHANGED entryVars

\* Start, lines 167-169: the stop channel (w.stopCh there) closed during the
\* wait, log.Fatal
StartFatal(c) ==
    /\ spc[c] = "wait"
    /\ stop
    /\ spc' = [spc EXCEPT ![c] = "fatal"]
    /\ UNCHANGED <<todo, starter, nstarts>>
    /\ UNCHANGED <<registryVars, reflectorVars, remoteVars, stopVars, updateVars, countVars>>
    /\ UNCHANGED queryVars
    /\ UNCHANGED entryVars

\* Start, lines 171-173: watch.invoke() for the next watch of the loop
\* (Go ranges over the map in no fixed order)
StartInvoke(c, k) ==
    /\ spc[c] = "invoke"
    /\ k \in todo[c]
    /\ InvokeEnter(c, k)
    /\ todo' = [todo EXCEPT ![c] = @ \ {k}]
    /\ IF HasSynced(k)
       THEN /\ spc' = [spc EXCEPT ![c] = "listener"]
            /\ startInvoked' = [startInvoked EXCEPT ![k] = @ + 1]
       ELSE UNCHANGED <<spc, startInvoked>>
    /\ UNCHANGED <<watches, started, stop, wg, store, synced>>
    /\ UNCHANGED <<starter, nstarts>>
    /\ UNCHANGED <<evInvoked, evExpected, launches, wgAdded>>
    /\ UNCHANGED <<reflectorVars, remoteVars, stopVars, updateVars>>
    /\ UNCHANGED queryVars

\* the listener called from Start returned
StartListenerReturn(c) ==
    /\ spc[c] = "listener"
    /\ InvokeExit(c)
    /\ spc' = [spc EXCEPT ![c] = "invoke"]
    /\ UNCHANGED <<watches, started, stop, wg, store, synced>>
    /\ UNCHANGED <<todo, starter, nstarts>>
    /\ UNCHANGED <<evInvoked, evExpected, startInvoked, launches, wgAdded>>
    /\ UNCHANGED <<reflectorVars, remoteVars, stopVars, updateVars>>
    /\ UNCHANGED queryVars
    /\ UNCHANGED entryVars

\* Start, line 174: the loop is over, Start returns
StartReturn(c) ==
    /\ spc[c] = "invoke"
    /\ todo[c] = {}
    /\ spc' = [spc EXCEPT ![c] = "returned"]
    /\ UNCHANGED <<todo, starter, nstarts>>
    /\ UNCHANGED <<registryVars, reflectorVars, remoteVars, stopVars, updateVars, countVars>>
    /\ UNCHANGED queryVars
    /\ UNCHANGED entryVars

\* --------------------------------------------------------------- Reflector
\* the stream of key k is open from its listing until the runner exits
StreamOpen(k) == rpc[k] \in {"sync", "watch", "invoke", "listener"}

\* where the processing loop continues after a handler returned
Resume(k) == IF synced[k] THEN "watch" ELSE "sync"

\* a fixed processing order of the items of a listing
ObjRank(o) == CASE o = "A" -> 1 [] o = "B" -> 2 [] OTHER -> 3
FirstOf(S) == CHOOSE o \in S : \A p \in S : ObjRank(o) <= ObjRank(p)

\* variant: an add handler that does not invoke
AddFunc_Silent == FALSE

\* ResourceEventHandlerFuncs.AddFunc, lines 110-112: always invoke()
AddFunc == TRUE

\* variant: an update handler that always invokes
UpdateFunc_Always(oldRV, newRV) == TRUE

\* ResourceEventHandlerFuncs.UpdateFunc, lines 113-123: invoke() only when
\* the resource versions differ
UpdateFunc(oldRV, newRV) == oldRV # newRV

\* ResourceEventHandlerFuncs.DeleteFunc, lines 124-126: always invoke()
DeleteFunc == TRUE

\* the informer's dispatch of one delta: an object already in the store is
\* an update, one that is not is an add
HandlerInvokes(type, oldRV, newRV) ==
    IF type = "deleted" THEN DeleteFunc
    ELSE IF oldRV # Absent THEN UpdateFunc(oldRV, newRV)
    ELSE AddFunc

\* when an event has to notify: added and deleted always, modified when
\* its token differs from the stored one
Notifies(type, oldRV, newRV) == type \in {"added", "deleted"} \/ oldRV # newRV

\* the store after one delta
Applied(k, type, o, rv) ==
    [store EXCEPT ![k][o] = IF type = "deleted" THEN Absent ELSE rv]

\* runner, line 133: the Reflector lists the collection and opens the watch
ListAndWatch(k) ==
    /\ rpc[k] = "list"
    /\ listed' = [listed EXCEPT ![k] = [o \in Objs |-> IF Covers(k, o) THEN server[o] ELSE Absent]]
    /\ initq' = [initq EXCEPT ![k] = {o \in Objs : Covers(k, o) /\ server[o] # Absent}]
    /\ stream' = [stream EXCEPT ![k] = <<>>]
    /\ rpc' = [rpc EXCEPT ![k] = "sync"]
    /\ UNCHANGED <<registryVars, remoteVars, startVars, stopVars, updateVars, countVars>>
    /\ UNCHANGED queryVars
    /\ UNCHANGED entryVars

\* one item of the initial listing goes into the store and to its handler
ProcessInitial(k) ==
    /\ rpc[k] = "sync"
    /\ initq[k] # {}
    /\ LET o == FirstOf(initq[k])
           rv == listed[k][o]
       IN /\ store' = Applied(k, "added", o, rv)
          /\ initq' = [initq EXCEPT ![k] = @ \ {o}]
          /\ rpc' = [rpc EXCEPT ![k] =
                        IF HandlerInvokes("added", store[k][o], rv) THEN "invoke" ELSE Resume(k)]
          /\ quiet' = IF uret.kind = "ok" /\ uret.obj = o THEN quiet \ {k} ELSE quiet
    /\ UNCHANGED <<watches, started, mutex, stop, wg, synced>>
    /\ UNCHANGED <<listed, stream>>
    /\ UNCHANGED <<upc, uarg, ures, uret, remoteCalls, nupdates>>
    /\ UNCHANGED <<remoteVars, startVars, stopVars, countVars>>
    /\ Replaced(k, {FirstOf(initq[k])})
    /\ UNCHANGED entryVars

\* the whole initial listing has been processed: HasSynced turns true
SyncDone(k) ==
    /\ rpc[k] = "sync"
    /\ initq[k] = {}
    /\ synced' = [synced EXCEPT ![k] = TRUE]
    /\ rpc' = [rpc EXCEPT ![k] = "watch"]
    /\ UNCHANGED <<watches, started, mutex, stop, wg, store>>
    /\ UNCHANGED <<initq, listed, stream>>
    /\ UNCHANGED <<remoteVars, startVars, stopVars, updateVars, countVars>>
    /\ UNCHANGED queryVars
    /\ UNCHANGED entryVars

\* the next event of the stream goes into the store and to its handler
ProcessEvent(k) ==
    /\ rpc[k] = "watch"
    /\ stream[k] # <<>>
    /\ LET e == Head(stream[k])
           old == store[k][e.obj]
       IN /\ store' = Applied(k, e.type, e.obj, e.rv)
          /\ rpc' = [rpc EXCEPT ![k] =
                        IF HandlerInvokes(e.type, old, e.rv) THEN "invoke" ELSE "watch"]
          /\ evExpected' = [evExpected EXCEPT ![k] =
                        IF Notifies(e.type, old, e.rv) THEN @ + 1 ELSE @]
          /\ quiet' = IF uret.kind = "ok" /\ uret.obj = e.obj THEN quiet \ {k} ELSE quiet
    /\ stream' = [stream EXCEPT ![k] = Tail(@)]
    /\ UNCHANGED <<watches, started, mutex, stop, wg, synced>>
    /\ UNCHANGED <<initq, listed>>
    /\ UNCHANGED <<active, evInvoked, startInvoked, launches, wgAdded>>
    /\ UNCHANGED <<upc, uarg, ures, uret, remoteCalls, nupdates>>
    /\ UNCHANGED <<remoteVars, startVars, stopVars>>
    /\ Replaced(k, {Head(stream[k]).obj})
    /\ UNCHANGED entryVars

\* a handler's invoke(), lines 97-103
ReflectorInvoke(k) ==
    /\ rpc[k] = "invoke"
    /\ InvokeEnter(k, k)
    /\ IF HasSynced(k)
       THEN /\ rpc' = [rpc EXCEPT ![k] = "listener"]
            /\ evInvoked' = [evInvoked EXCEPT ![k] = @ + 1]
       ELSE /\ rpc' = [rpc EXCEPT ![k] = Resume(k)]
            /\ UNCHANGED evInvoked
    /\ UNCHANGED <<watches, started, stop, wg, store, synced>>
    /\ UNCHANGED <<initq, listed, stream>>
    /\ UNCHANGED <<evExpected, startInvoked, launches, wgAdded>>
    /\ UNCHANGED <<remoteVars, startVars, stopVars, updateVars>>
    /\ UNCHANGED queryVars

\* the listener called from a handler returned
ReflectorListenerReturn(k) ==
    /\ rpc[k] = "listener"
    /\ InvokeExit(k)
    /\ rpc' = [rpc EXCEPT ![k] = Resume(k)]
    /\ UNCHANGED <<watches, started, stop, wg, store, synced>>
    /\ UNCHANGED <<initq, listed, stream>>
    /\ UNCHANGED <<evInvoked, evExpected, startInvoked, launches, wgAdded>>
    /\ UNCHANGED <<remoteVars, startVars, stopVars, updateVars>>
    /\ UNCHANGED queryVars
    /\ UNCHANGED entryVars

\* runner, lines 133-134: Run returned on the closed stop channel, wg.Done()
RunnerExit(k) ==
    /\ rpc[k] \in {"list", "sync", "watch"}
    /\ stop
    /\ rpc' = [rpc EXCEPT ![k] = "exited"]
    /\ wg' = wg - 1
    /\ UNCHANGED <<watches, started, mutex, stop, store, synced>>
    /\ UNCHANGED <<initq, listed, stream>>
    /\ UNCHANGED <<remoteVars, startVars, stopVars, updateVars, countVars>>
    /\ UNCHANGED queryVars
    /\ UNCHANGED entryVars

\* ------------------------------------------------------------------ remote
Event(type, o, rv) == [type |-> type, obj |-> o, rv |-> rv]

\* every open stream that covers the object receives the event
Deliver(e) ==
    [k \in Keys |-> IF StreamOpen(k) /\ Covers(k, e.obj) THEN Append(stream[k], e) ELSE stream[k]]

\* another client of the remote API creates, changes or deletes an object
\* (a change made before Start is one more initial collection; the objects
\* of the full initial collection exist from the start or never)
RemoteAdd(o) ==
    /\ started
    /\ FullColl[o] = Absent
    /\ server[o] = Absent
    /\ nextRV <= MaxToken
    /\ server' = [server EXCEPT ![o] = nextRV]
    /\ nextRV' = nextRV + 1
    /\ stream' = Deliver(Event("added", o, nextRV))
    /\ UNCHANGED <<rpc, initq, listed>>
    /\ UNCHANGED <<registryVars, startVars, stopVars, updateVars, countVars>>
    /\ UNCHANGED queryVars
    /\ UNCHANGED entryVars

RemoteModify(o) ==
    /\ started
    /\ server[o] # Absent
    /\ nextRV <= MaxToken
    /\ server' = [server EXCEPT ![o] = nextRV]
    /\ nextRV' = nextRV + 1
    /\ stream' = Deliver(Event("modified", o, nextRV))
    /\ UNCHANGED <<rpc, initq, listed>>
    /\ UNCHANGED <<registryVars, startVars, stopVars, updateVars, countVars>>
    /\ UNCHANGED queryVars
    /\ UNCHANGED entryVars

RemoteDelete(o) ==
    /\ started
    /\ server[o] # Absent
    /\ nextRV <= MaxToken
    /\ server' = [server EXCEPT ![o] = Absent]
    /\ nextRV' = nextRV + 1
    /\ stream' = Deliver(Event("deleted", o, Absent))
    /\ UNCHANGED <<rpc, initq, listed>>
    /\ UNCHANGED <<registryVars, startVars, stopVars, updateVars, countVars>>
    /\ UNCHANGED queryVars
    /\ UNCHANGED entryVars

\* ------------------------------------------------------------ UpdateStatus
\* the resources a caller passes come from the query API, so the calls are
\* made once Start has been called
NoSuchWatch == [kind |-> "error", err |-> "no watch"]
RemoteRejected == [kind |-> "error", err |-> "rejected"]
Returned(o, rv) == [kind |-> "ok", obj |-> o, rv |-> rv]

\* variant: the query API takes the mutex on entry
QueryLock_Mutex == mutex = Free

\* List, Get, Exists and UpdateStatus, lines 176-241: no w.mutex.Lock(), a
\* call goes ahead whoever holds the mutex
QueryLock == TRUE

\* variant: the lookup under the cluster-wide key of the kind
UpdateKey_AllNamespaces(o) == watchKey(KindOf(o), AllNamespaces)

\* UpdateStatus, line 214: w.watches[watchKey{gvr, uns.GetNamespace()}]
UpdateKey(o) == watchKey(KindOf(o), NsOf(o))
HasWatch(k) == k \in Keys /\ watches[k] # NoWatch

\* variant: the store is written although the remote call failed
StoreOnError_Write(k, o) == [store EXCEPT ![k][o] = nextRV]

\* UpdateStatus, lines 221-222: on an error the store is not written
StoreOnError(k, o) == store

\* variant: the result is returned but not written
StoreUpdate_Skip(k, o, rv) == store

\* UpdateStatus, line 224: watch.store.Update(result)
StoreUpdate(k, o, rv) == [store EXCEPT ![k][o] = rv]

\* UpdateStatus, lines 214-217: no watch under the resource's own key
UpdateStatusNoWatch(o) ==
    /\ QueryLock
    /\ started
    /\ upc = "idle"
    /\ nupdates < MaxUpdates
    /\ ~HasWatch(UpdateKey(o))
    /\ nupdates' = nupdates + 1
    /\ uarg' = o
    /\ uret' = NoSuchWatch
    /\ quiet' = {}
    /\ UNCHANGED <<upc, ures, remoteCalls>>
    /\ UNCHANGED <<registryVars, reflectorVars, remoteVars, startVars, stopVars, countVars>>
    /\ UNCHANGED queryVars
    /\ UNCHANGED entryVars

\* UpdateStatus, lines 220-222: the remote call fails, the error is returned
UpdateStatusRejected(o) ==
    /\ QueryLock
    /\ started
    /\ upc = "idle"
    /\ nupdates < MaxUpdates
    /\ HasWatch(UpdateKey(o))
    /\ nupdates' = nupdates + 1
    /\ uarg' = o
    /\ remoteCalls' = remoteCalls + 1
    /\ store' = StoreOnError(UpdateKey(o), o)
    /\ uret' = RemoteRejected
    /\ quiet' = {}
    /\ UNCHANGED <<upc, ures>>
    /\ UNCHANGED <<watches, started, mutex, stop, wg, synced>>
    /\ UNCHANGED <<reflectorVars, remoteVars, startVars, stopVars, countVars>>
    /\ UNCHANGED queryVars
    /\ UNCHANGED entryVars

\* UpdateStatus, line 220: the remote call succeeds; the server stores the
\* object under a fresh token and sends the modified event
UpdateStatusRemote(o) ==
    /\ QueryLock
    /\ started
    /\ upc = "idle"
    /\ nupdates < MaxUpdates
    /\ HasWatch(UpdateKey(o))
    /\ server[o] # Absent
    /\ nextRV <= MaxToken
    /\ nupdates' = nupdates + 1
    /\ uarg' = o
    /\ remoteCalls' = remoteCalls + 1
    /\ server' = [server EXCEPT ![o] = nextRV]
    /\ nextRV' = nextRV + 1
    /\ stream' = Deliver(Event("modified", o, nextRV))
    /\ ures' = Returned(o, nextRV)
    /\ upc' = "write"
    /\ UNCHANGED <<uret, quiet>>
    /\ UNCHANGED <<rpc, initq, listed>>
    /\ UNCHANGED <<registryVars, startVars, stopVars, countVars>>
    /\ UNCHANGED queryVars
    /\ UNCHANGED entryVars

\* UpdateStatus, lines 224-225: the result goes into the store and is returned
UpdateStatusWrite ==
    /\ upc = "write"
    /\ store' = StoreUpdate(UpdateKey(ures.obj), ures.obj, ures.rv)
    /\ uret' = ures
    /\ quiet' = Keys
    /\ upc' = "idle"
    /\ UNCHANGED <<uarg, ures, remoteCalls, nupdates>>
    /\ UNCHANGED <<watches, started, mutex, stop, wg, synced>>
    /\ UNCHANGED <<reflectorVars, remoteVars, startVars, stopVars, countVars>>
    /\ Replaced(UpdateKey(ures.obj), {ures.obj})
    /\ UNCHANGED entryVars

\* -------------------------------------------------------------------- Stop
\* Stop, line 244: close(w.stop)
StopClose ==
    /\ started
    /\ stpc = "idle"
    /\ stop' = TRUE
    /\ stpc' = "wait"
    /\ UNCHANGED wpc
    /\ UNCHANGED <<watches, started, mutex, wg, store, synced>>
    /\ UNCHANGED <<reflectorVars, remoteVars, startVars, updateVars, countVars>>
    /\ UNCHANGED queryVars
    /\ UNCHANGED entryVars

\* Stop, line 245: w.wg.Wait() returned
StopReturn ==
    /\ stpc = "wait"
    /\ wg = 0
    /\ stpc' = "returned"
    /\ UNCHANGED wpc
    /\ UNCHANGED <<registryVars, reflectorVars, remoteVars, startVars, updateVars, countVars>>
    /\ UNCHANGED queryVars
    /\ UNCHANGED entryVars

\* -------------------------------------------------------------------- Wait
\* Wait, line 249: w.Start()
WaitCall(c) ==
    /\ StartEnter(c)
    /\ wpc' = [wpc EXCEPT ![c] = "start"]
    /\ UNCHANGED stpc

\* Wait, line 250: Start has returned and w.wg.Wait() finds the counter at zero
WaitReturn(c) ==
    /\ wpc[c] = "start"
    /\ spc[c] = "returned"
    /\ wg = 0
    /\ wpc' = [wpc EXCEPT ![c] = "returned"]
    /\ UNCHANGED stpc
    /\ UNCHANGED <<registryVars, reflectorVars, remoteVars, startVars, updateVars, countVars>>
    /\ UNCHANGED queryVars
    /\ UNCHANGED entryVars

\* ------------------------------------------------------------------- query
\* ListInternal, lines 188-200: the objects of the store under (gvr, ns)
ListInternal(kind, ns) ==
    LET k == watchKey(kind, ns) IN
    IF HasWatch(k) THEN {<<o, store[k][o]>> : o \in {p \in Objs : store[k][p] # Absent}} ELSE {}

\* List, lines 176-186
List(kind) == ListInternal(kind, AllNamespaces)

\* strings of the query API are sequences of characters; the letters that
\* occur in the names of the model and their upper-case forms
UpperOf == [c \in {"a", "b", "c", "n", "s", "z"} |->
              CASE c = "a" -> "A" [] c = "b" -> "B" [] c = "c" -> "C"
                [] c = "n" -> "N" [] c = "s" -> "S" [] OTHER -> "Z"]

\* unicode.SimpleFold on these characters: a letter folds with its other
\* case, every other character with itself only
FoldOf == [c \in {UpperOf[l] : l \in DOMAIN UpperOf} |-> CHOOSE l \in DOMAIN UpperOf : UpperOf[l] = c]
FoldChar(c) == IF c \in DOMAIN FoldOf THEN FoldOf[c] ELSE c

\* variant: a comparison that respects case
EqualFold_Exact(s, t) == s = t

\* strings.EqualFold, line 232: equal under case folding
EqualFold(s, t) ==
    /\ Len(s) = Len(t)
    /\ \A i \in 1..Len(s) : FoldChar(s[i]) = FoldChar(t[i])

\* Resource.Name and Resource.Namespace of the objects of the model
NameChars(o) == CASE o = "A" -> <<"a">> [] o = "B" -> <<"b">> [] OTHER -> <<"c">>
NamespaceChars(o) == IF NsOf(o) = "ns-a" THEN <<"n", "s", "-", "a">> ELSE <<"n", "s", "-", "b">>

\* Resource{}, and the (empty) name it has
EmptyResource == <<NoWatch, Absent>>
Name(r) == IF r = EmptyResource THEN <<>> ELSE NameChars(r[1])

\* Resource.QName: name, a dot, namespace
QNameOf == [o \in Objs |-> NameChars(o) \o <<".">> \o NamespaceChars(o)]
QName(r) == QNameOf[r[1]]

\* Get, lines 229-237: the first Resource of List(kind) whose qualified name
\* folds to qname, Resource{} when there is none. List returns the Store in
\* no fixed order, so this is the set of the results a call can return.
Get(kind, qname) ==
    LET matches == {r \in List(kind) : EqualFold(QName(r), qname)}
    IN IF matches = {} THEN {EmptyResource} ELSE matches

\* Exists, lines 239-241: w.Get(kind, qname).Name() != ""
Exists(kind, qname) == \E r \in Get(kind, qname) : Name(r) # <<>>

\* ListInternal, line 194: UnstructuredContent() hands out the map of the
\* stored object itself, so each Resource of the result is the Store's object
UnstructuredContent(k, o) == <<k, o>>

\* a caller calls List(kind) and keeps the result
ListCall(kind) ==
    /\ QueryLock
    /\ nqueries < MaxQueries
    /\ nqueries' = nqueries + 1
    /\ held' = {UnstructuredContent(watchKey(kind, AllNamespaces), r[1]) : r \in List(kind)}
    /\ UNCHANGED mutated
    /\ UNCHANGED <<registryVars, reflectorVars, remoteVars, startVars, stopVars, updateVars, countVars>>
    /\ UNCHANGED entryVars

\* a caller calls Get(kind, qname) and keeps the result
GetCall(kind, qname) ==
    /\ QueryLock
    /\ nqueries < MaxQueries
    /\ nqueries' = nqueries + 1
    /\ \E r \in Get(kind, qname) :
          held' = IF r = EmptyResource THEN {}
                  ELSE {UnstructuredContent(watchKey(kind, AllNamespaces), r[1])}
    /\ UNCHANGED mutated
    /\ UNCHANGED <<registryVars, reflectorVars, remoteVars, startVars, stopVars, updateVars, countVars>>
    /\ UNCHANGED entryVars

\* the caller changes a field of a Resource a query returned
Mutate(k, o) ==
    /\ <<k, o>> \in held
    /\ <<k, o>> \notin mutated
    /\ mutated' = mutated \cup {<<k, o>>}
    /\ UNCHANGED <<held, nqueries>>
    /\ UNCHANGED <<registryVars, reflectorVars, remoteVars, startVars, stopVars, updateVars, countVars>>
    /\ UNCHANGED entryVars

\* ----------------------------------------------------------- specification
\* log.Fatal in Start ends the process
Live == \A c \in Callers : spc[c] # "fatal"

\* the data path: registration, Start, the Reflectors, the remote API and
\* UpdateStatus
DataNext ==
    \/ \E kind \in Kinds, ns \in Namespaces, l \in SpecListeners : Live /\ WatchInternal(kind, ns, l)
    \/ \E c \in Callers : Live /\ StartCall(c)
    \/ \E c \in Callers : Live /\ StartAdd(c)
    \/ \E c \in Callers : Live /\ StartLaunch(c)
    \/ \E c \in Callers : Live /\ StartSynced(c)
    \/ \E c \in Callers, k \in Keys : Live /\ StartInvoke(c, k)
    \/ \E c \in Callers : Live /\ StartListenerReturn(c)
    \/ \E c \in Callers : Live /\ StartReturn(c)
    \/ \E k \in Keys : Live /\ ListAndWatch(k)
    \/ \E k \in Keys : Live /\ ProcessInitial(k)
    \/ \E k \in Keys : Live /\ SyncDone(k)
    \/ \E k \in Keys : Live /\ ProcessEvent(k)
    \/ \E k \in Keys : Live /\ ReflectorInvoke(k)
    \/ \E k \in Keys : Live /\ ReflectorListenerReturn(k)
    \/ \E o \in Objs : Live /\ RemoteAdd(o)
    \/ \E o \in Objs : Live /\ RemoteModify(o)
    \/ \E o \in Objs : Live /\ RemoteDelete(o)
    \/ \E o \in Objs : Live /\ UpdateStatusNoWatch(o)
    \/ \E o \in Objs : Live /\ UpdateStatusRejected(o)
    \/ \E o \in Objs : Live /\ UpdateStatusRemote(o)
    \/ Live /\ UpdateStatusWrite

Next == DataNext

Spec == Init /\ [][Next]_vars

\* the lifecycle: registration, Start, the Reflectors, Stop and Wait, over
\* remote collections that do not change
StopNext ==
    \/ \E kind \in Kinds, ns \in Namespaces, l \in SpecListeners : Live /\ WatchInternal(kind, ns, l)
    \/ \E c \in Callers : Live /\ StartCall(c)
    \/ \E c \in Callers : Live /\ StartAdd(c)
    \/ \E c \in Callers : Live /\ StartLaunch(c)
    \/ \E c \in Callers : Live /\ StartSynced(c)
    \/ \E c \in Callers : Live /\ StartFatal(c)
    \/ \E c \in Callers, k \in Keys : Live /\ StartInvoke(c, k)
    \/ \E c \in Callers : Live /\ StartListenerReturn(c)
    \/ \E c \in Callers : Live /\ StartReturn(c)
    \/ \E k \in Keys : Live /\ ListAndWatch(k)
    \/ \E k \in Keys : Live /\ ProcessInitial(k)
    \/ \E k \in Keys : Live /\ SyncDone(k)
    \/ \E k \in Keys : Live /\ ReflectorInvoke(k)
    \/ \E k \in Keys : Live /\ RunnerExit(k)
    \/ Live /\ StopClose
    \/ Live /\ StopReturn
    \/ \E c \in Callers : Live /\ WaitCall(c)
    \/ \E c \in Callers : Live /\ WaitReturn(c)

SpecStop == Init /\ [][StopNext]_vars

\* one caller of Start, the Reflectors and the remote API
QueryRun ==
    \/ StartCall(FirstCaller)
    \/ StartAdd(FirstCaller)
    \/ StartLaunch(FirstCaller)
    \/ StartSynced(FirstCaller)
    \/ \E k \in Keys : StartInvoke(FirstCaller, k)
    \/ StartListenerReturn(FirstCaller)
    \/ StartReturn(FirstCaller)
    \/ \E k \in Keys : ListAndWatch(k)
    \/ \E k \in Keys : ProcessInitial(k)
    \/ \E k \in Keys : SyncDone(k)
    \/ \E k \in Keys : ProcessEvent(k)
    \/ \E k \in Keys : ReflectorInvoke(k)
    \/ \E k \in Keys : ReflectorListenerReturn(k)
    \/ \E o \in Objs : RemoteAdd(o)
    \/ \E o \in Objs : RemoteModify(o)
    \/ \E o \in Objs : RemoteDelete(o)

\* the query path: registration, then the above; the queries read the Stores
\* these leave
QueryNext ==
    \/ \E kind \in Kinds, ns \in Namespaces, l \in SpecListeners : WatchInternal(kind, ns, l)
    \/ QueryRun

SpecQuery == Init /\ [][QueryNext]_vars

\* the same with a caller of List and Get that changes what it got
AliasNext ==
    \/ QueryNext
    \/ \E kind \in Kinds : ListCall(kind)
    \/ \E kind \in Kinds, o \in Objs : GetCall(kind, QNameOf[o])
    \/ \E k \in Keys, o \in Objs : Mutate(k, o)

SpecAlias == Init /\ [][AliasNext]_vars

\* registration with either listener, each listener once per key, then the
\* query path
RegisterNext ==
    \/ \E kind \in Kinds, ns \in Namespaces, l \in Listeners :
          /\ <<watchKey(kind, ns), l>> \notin replaced
          /\ WatchInternal(kind, ns, l)
    \/ QueryRun

SpecRegister == Init /\ [][RegisterNext]_vars

\* ================================================================== claims
WidgetsAll == watchKey("widgets", AllNamespaces)
WidgetsA == watchKey("widgets", "ns-a")

\* the first call of Start, the one that set started, has returned
FirstStartReturned == starter # NoWatch /\ spc[starter] = "returned"

\* C1 (as claimed): whenever a call of Start has returned, the first one or
\* a later or concurrent one, every registered watch has completed its
\* initial listing.
C1_ReadinessBarrier ==
    \A c \in Callers : spc[c] = "returned" =>
        \A k \in Registered : HasSynced(k) /\ initq[k] = {}

\* C2 (as claimed): while a listener is running, every registered watch of
\* the Registry has completed its initial listing.
C2_ListenerBarrier ==
    active # {} => \A k \in Registered : HasSynced(k)

\* C4: at most one listener invocation of the Registry is in progress at any
\* time, over the invocations made by the Reflectors' handlers and by Start.
C4_ListenerMutex == Cardinality(active) <= 1

\* C4 witness: one Reflector is inside the listener while another one, ready
\* and with an event handled, waits in invoke for the mutex.
C4_Witness ==
    \E k1, k2 \in Registered :
        /\ k1 # k2
        /\ rpc[k1] = "listener"
        /\ rpc[k2] = "invoke"
        /\ HasSynced(k2)

\* a ProcessEvent step of key k: the head of its stream is consumed
Processes(k) == rpc[k] = "watch" /\ stream[k] # <<>> /\ stream'[k] = Tail(stream[k])

\* the head of the stream of k is the modified event that echoes the last
\* successful UpdateStatus, and k has processed nothing else for that
\* object since the call returned
EchoNext(k) ==
    /\ uret.kind = "ok"
    /\ k \in quiet
    /\ stream[k] # <<>>
    /\ Head(stream[k]) = Event("modified", uret.obj, uret.rv)

\* C3 (as claimed): after UpdateStatus returned token t for X, the next
\* event for X, a modified event carrying t, causes no listener invocation,
\* whichever Reflector of the Registry receives it.
C3_DedupAnyWatch ==
    [][\A k \in Registered :
          (EchoNext(k) /\ Processes(k)) => (rpc'[k] # "invoke" /\ evInvoked' = evInvoked)]_vars

\* C3 (amended): the same for the Reflector of the Watch Entry under the
\* resource's own key, the one whose Store UpdateStatus wrote: the handler
\* returns without calling invoke and the invocation counts are unchanged.
C3_DedupOwnWatch ==
    [][\A k \in Registered :
          (EchoNext(k) /\ Processes(k) /\ k = UpdateKey(uret.obj)) =>
              (rpc'[k] = "watch" /\ evInvoked' = evInvoked /\ startInvoked' = startInvoked)]_vars

\* C3 witness: the Reflector of the written entry has consumed the echo of
\* the last UpdateStatus, is ready, and made no invocation.
C3_Witness ==
    /\ uret.kind = "ok"
    /\ HasWatch(UpdateKey(uret.obj))
    /\ LET k == UpdateKey(uret.obj) IN
        /\ HasSynced(k)
        /\ rpc[k] = "watch"
        /\ stream[k] = <<>>
        /\ store[k][uret.obj] = uret.rv
        /\ server[uret.obj] = uret.rv
        /\ listed[k][uret.obj] # uret.rv
        /\ evInvoked[k] = 0

\* the object changed on the server after the listing of k, so the stream
\* of k carried at least one event for it
EventSeen(k, o) == Covers(k, o) /\ StreamOpen(k) /\ server[o] # listed[k][o]

\* C5 (as claimed): once a Reflector has processed every event of its
\* stream, the Store entry of each object that had events equals the payload
\* of the last one (it is absent after a deleted event), whatever
\* UpdateStatus calls interleave.
C5_Convergence ==
    \A k \in Registered :
        (HasSynced(k) /\ rpc[k] = "watch" /\ stream[k] = <<>>) =>
            \A o \in Objs : EventSeen(k, o) => store[k][o] = server[o]

\* the scenario of the specification: widgets registered cluster-wide only,
\* initial listing {A, B}, then the remote deleted A and added C, and the
\* Reflector has processed both events
ScenarioDone ==
    /\ Registered = {WidgetsAll}
    /\ listed[WidgetsAll] = FullColl
    /\ server = [FullColl EXCEPT !["A"] = Absent, !["C"] = FirstToken + 1]
    /\ nextRV = FirstToken + 2
    /\ FirstStartReturned
    /\ rpc[WidgetsAll] = "watch"
    /\ stream[WidgetsAll] = <<>>

\* C6: at every point between two events of a ready watch, the listener
\* invocations made from its handlers equal the events that had to notify
\* (added, deleted, modified with a token other than the stored one), with
\* the one of the event in hand still due while its handler waits in invoke;
\* and in the scenario the listener is invoked once by Start, with the Store
\* holding {A, B} when no remote change came first, twice more by the two
\* events, and the final List is {B, C}.
C6_NotificationCount ==
    /\ \A k \in Keys :
          evInvoked[k] + (IF rpc[k] = "invoke" /\ HasSynced(k) THEN 1 ELSE 0) = evExpected[k]
    /\ \A c \in Callers :
          (spc[c] = "listener" /\ Registered = {WidgetsAll} /\ listed[WidgetsAll] = FullColl
              /\ nextRV = FirstToken) => List("widgets") = {<<"A", 1>>, <<"B", 2>>}
    /\ ScenarioDone =>
          /\ startInvoked[WidgetsAll] = 1
          /\ evInvoked[WidgetsAll] = 2
          /\ List("widgets") = {<<"B", 2>>, <<"C", FirstToken + 1>>}

\* C6 witness: the scenario has run to its end.
C6_Witness == ScenarioDone /\ evInvoked[WidgetsAll] = 2 /\ active = {}

\* C7: the Start path invokes the listener of a Watch Entry at most once,
\* only for registered entries and only when every watch is ready, and when
\* the first Start has returned it has invoked every registered entry once.
C7_InitialNotification ==
    /\ \A k \in Keys : startInvoked[k] <= 1
    /\ \A k \in Keys : startInvoked[k] = 1 =>
          (k \in Registered /\ \A j \in Registered : HasSynced(j))
    /\ FirstStartReturned => \A k \in Registered : startInvoked[k] = 1

\* C7 witness: the first Start returned with two watches over empty remote
\* collections; no event was ever delivered.
C7_Witness ==
    /\ FirstStartReturned
    /\ Cardinality(Registered) = 2
    /\ server = EmptyColl
    /\ nextRV = FirstToken
    /\ \A k \in Registered : startInvoked[k] = 1 /\ evInvoked[k] = 0 /\ store[k] = EmptyColl

\* a call of Start that finds started set
LaterStartCall == started /\ nstarts' = nstarts + 1

\* C8: over all calls of Start each runner is launched at most once and only
\* for a registered watch, the task counter is raised once by the number of
\* watches, the Start path invokes each listener at most once, all of this
\* has happened once the first call is past its launch, and a call that
\* finds started set returns at once and changes no Registry state.
C8_StartIdempotent ==
    /\ [](\A k \in Keys :
            /\ launches[k] <= 1
            /\ startInvoked[k] <= 1
            /\ launches[k] = 1 => k \in Registered)
    /\ [](wgAdded \in {0, Cardinality(Registered)})
    /\ []((starter # NoWatch /\ spc[starter] \in {"wait", "invoke", "listener", "returned"}) =>
            /\ wgAdded = Cardinality(Registered)
            /\ \A k \in Registered : launches[k] = 1)
    /\ [][LaterStartCall =>
            /\ UNCHANGED <<registryVars, reflectorVars, countVars, todo, starter>>
            /\ \E c \in Callers : spc' = [spc EXCEPT ![c] = "returned"]]_vars

\* C8 witness: two calls of Start were made, both returned, and both
\* runners of a two-watch Registry were launched once.
C8_Witness ==
    /\ nstarts = 2
    /\ \A c \in Callers : spc[c] \in {"idle", "returned"}
    /\ FirstStartReturned
    /\ Cardinality(Registered) = 2
    /\ \A k \in Registered : launches[k] = 1 /\ startInvoked[k] = 1
    /\ wgAdded = 2

\* C9: the remote call's result is the object under the token the server
\* just issued, and the step on which UpdateStatus returns leaves that
\* object in the Store of the resource's key and returns it.
C9_WriteThrough ==
    [][/\ (upc = "idle" /\ upc' = "write") =>
            /\ ures'.kind = "ok"
            /\ ures'.rv = nextRV
            /\ server'[ures'.obj] = ures'.rv
       /\ (upc = "write" /\ upc' = "idle") =>
            /\ store'[UpdateKey(ures.obj)][ures.obj] = ures.rv
            /\ uret' = ures]_vars

\* C9 witness: UpdateStatus has returned, the Store holds the returned
\* object, and the Reflector of that Store has not yet processed the
\* modified event of the update.
C9_Witness ==
    /\ uret.kind = "ok"
    /\ upc = "idle"
    /\ LET k == UpdateKey(uret.obj) IN
        /\ store[k][uret.obj] = uret.rv
        /\ stream[k] # <<>>
        /\ Head(stream[k]) = Event("modified", uret.obj, uret.rv)
        /\ listed[k][uret.obj] # uret.rv

\* a call of UpdateStatus whose remote call is rejected: the call was
\* issued and the server stored nothing
RejectedCall == remoteCalls' # remoteCalls /\ nextRV' = nextRV

\* C10: a rejected UpdateStatus returns the error after exactly one remote
\* call, with every Store and every invocation count as before the call.
C10_FailureFrame ==
    [][RejectedCall =>
          /\ uret' = RemoteRejected
          /\ upc' = "idle"
          /\ remoteCalls' = remoteCalls + 1
          /\ store' = store
          /\ UNCHANGED <<active, evInvoked, startInvoked, mutex, server, stream>>]_vars

\* C10 witness: a rejected call has returned while a Store holds objects.
C10_Witness ==
    /\ uret = RemoteRejected
    /\ remoteCalls = 1
    /\ \E o \in Objs : store[WidgetsA][o] # Absent

\* a step on which UpdateStatus is called
UpdateStatusCalled == nupdates' = nupdates + 1

\* the key the claim names: the collection of the resource's kind under the
\* resource's own namespace
OwnKey(o) == <<KindOf(o), NsOf(o)>>

\* C11: a call of UpdateStatus returns the no-watch error exactly when no
\* Watch Entry is registered under (kind of the resource, namespace of the
\* resource); that call issues no remote call and changes no Store, and a
\* call for a registered key issues the remote call and does not return the
\* no-watch error. A resource of "ns-a" whose kind is registered only
\* cluster-wide is looked up under "ns-a" and gets the no-watch error.
C11_NoSuchWatch ==
    [][UpdateStatusCalled =>
          IF OwnKey(uarg') \in Registered
          THEN /\ remoteCalls' = remoteCalls + 1
               /\ upc' = "idle" => uret' = RemoteRejected
          ELSE /\ uret' = NoSuchWatch
               /\ upc' = "idle"
               /\ remoteCalls' = remoteCalls
               /\ UNCHANGED <<store, server, stream, mutex, active>>]_vars

\* C11 witness: widgets is registered cluster-wide only, the Store holds A
\* of "ns-a", and UpdateStatus for A returned the no-watch error without a
\* remote call.
C11_Witness ==
    /\ Registered = {WidgetsAll}
    /\ uarg = "A"
    /\ NsOf(uarg) = "ns-a"
    /\ store[WidgetsAll]["A"] # Absent
    /\ uret = NoSuchWatch
    /\ remoteCalls = 0
    /\ nupdates = 1

\* the Resources a Store holds, as (object, token) pairs
Held(k) == {<<o, store[k][o]>> : o \in {p \in Objs : store[k][p] # Absent}}

\* C12 (as claimed): List(kind) is exactly what the Stores of the registered
\* Watch Entries of that kind hold, whatever namespace an entry was
\* registered with, and is empty when no entry of the kind is registered.
C12_ListEveryEntry ==
    \A kind \in Kinds :
        List(kind) = UNION {Held(k) : k \in {j \in Registered : j[1] = kind}}

\* C13 (as claimed): the Store of a Watch Entry registered with a namespace
\* holds only objects of that namespace, and when a kind is registered with
\* "ns-a" only, List of the kind returns no object of another namespace.
C13_NamespaceScoping ==
    /\ \A k \in Registered :
          k[2] # AllNamespaces => \A o \in Objs : store[k][o] # Absent => NsOf(o) = k[2]
    /\ \A kind \in Kinds :
          (\A k \in Registered : k[1] = kind => k[2] = "ns-a") =>
              \A r \in List(kind) : NsOf(r[1]) = "ns-a"

\* C14 (as claimed): when Stop has returned, no Reflector task of the
\* Registry is running or can still be launched: every registered watch's
\* runner has exited, also when Stop was called between Start setting
\* started and Start raising the task counter.
C14_StopWaitsForTasks ==
    stpc = "returned" => \A k \in Registered : rpc[k] = "exited"

\* C15 (as claimed): when a call of Wait on a Registry with at least one
\* watch has returned, every Reflector task has exited, also when another
\* caller's Start was in progress when Wait was called.
C15_WaitForTasks ==
    \A c \in Callers :
        (wpc[c] = "returned" /\ Registered # {}) => \A k \in Registered : rpc[k] = "exited"

\* the qualified names the queries are built from: those of the objects of
\* the model and one that no object has
NoSuchQName == <<"z", ".", "n", "s", "-", "a">>
BaseQNames == {QName(<<o, Absent>>) : o \in Objs} \cup {NoSuchQName}
Positions == 1..Len(NoSuchQName)

\* a string with the letters at the given positions in upper case
Raised(s, at) == [i \in Positions |-> IF i \in at /\ s[i] \in DOMAIN UpperOf THEN UpperOf[s[i]] ELSE s[i]]

\* the spellings of a qualified name the queries use: as it is, with its
\* first letter raised, with its namespace raised, with every letter raised
Spellings == [s \in BaseQNames |->
                 {Raised(s, {}), Raised(s, {1}), Raised(s, Positions \ {1}), Raised(s, Positions)}]

\* the listed Resources whose qualified name a query spells
Spelt(kind, q) == {r \in List(kind) : q \in Spellings[QName(r)]}

\* C16: for every Store contents reached, the queries that differ only in
\* letter case (the spellings of one qualified name) all get one and the
\* same result from Get; Get returns the listed Resource whose qualified
\* name the query spells in any case, and the empty Resource when there is
\* none; Exists is true exactly when Get returns a non-empty Resource.
C16_GetCaseInsensitive ==
    \A kind \in Kinds : \A b \in BaseQNames :
        /\ Cardinality({Get(kind, q) : q \in Spellings[b]}) = 1
        /\ \A q \in Spellings[b] :
              LET got == Get(kind, q)
                  spelt == Spelt(kind, q)
              IN /\ got = IF spelt = {} THEN {EmptyResource} ELSE spelt
                 /\ Exists(kind, q) <=> got # {EmptyResource}

\* C16 witness: the cluster-wide Store of widgets holds A and B; Get finds A
\* under an upper-case spelling of its qualified name, and returns the empty
\* Resource for a name no object has.
C16_Witness ==
    /\ HasWatch(WidgetsAll)
    /\ store[WidgetsAll]["A"] # Absent
    /\ store[WidgetsAll]["B"] # Absent
    /\ Get("widgets", <<"A", ".", "N", "S", "-", "A">>) = {<<"A", store[WidgetsAll]["A"]>>}
    /\ Exists("widgets", <<"A", ".", "n", "s", "-", "a">>)
    /\ Get("widgets", NoSuchQName) = {EmptyResource}
    /\ ~Exists("widgets", NoSuchQName)

\* C17 (as claimed): whatever a caller does to a Resource that List or Get
\* returned, every Store entry stays the object as last observed from the
\* server, so a later List returns it unchanged.
C17_IndependentCopies ==
    \A k \in Registered : \A o \in Objs :
        store[k][o] # Absent => <<k, o>> \notin mutated

\* C18 (as claimed): once the Registry is started, a step that writes a
\* Local Store (a Reflector processing a listing item or an event,
\* UpdateStatus writing its result) is taken with the Registry's lock held,
\* and no Store changes while a listener invocation is in progress.
C18_StoreWritesUnderLock ==
    [][/\ (started /\ store' # store) => mutex # Free
       /\ active # {} => store' = store]_vars

\* a step on which the listener of key k is called
ListenerCalled(k) == evInvoked'[k] # evInvoked[k] \/ startInvoked'[k] # startInvoked[k]

\* a step on which a handler of key k leaves invoke
LeavesInvoke(k) == rpc[k] = "invoke" /\ rpc'[k] # "invoke"

\* what a step of either kind changes
gateVars == <<rpc, evInvoked, startInvoked>>

\* C19: the listener of a watch is called, and is running, only while that
\* watch's own readiness predicate is true; a handler that reaches invoke
\* before the watch's initial listing is complete takes the lock and gives
\* it back in the same step, and no listener is called.
C19_PerWatchGate ==
    /\ [](\A k \in Keys : rpc[k] = "listener" => HasSynced(k))
    /\ [][\A k \in Keys :
            /\ ListenerCalled(k) => HasSynced(k)
            /\ (LeavesInvoke(k) /\ ~HasSynced(k)) =>
                  /\ UNCHANGED <<active, evInvoked, startInvoked>>
                  /\ rpc'[k] = "sync"
                  /\ mutex = Free /\ mutex' = Free]_gateVars

\* C19 witness: the add handler of the first item of a listing of two has
\* been through invoke and the second item is still to come; the listener
\* was not called.
C19_Witness ==
    \E k \in Registered :
        /\ ~HasSynced(k)
        /\ rpc[k] = "sync"
        /\ store[k]["A"] # Absent
        /\ initq[k] = {"B"}
        /\ evInvoked[k] = 0
        /\ active = {}

\* a call of UpdateStatus is due: the caller is idle and has calls left
UpdateDue == started /\ upc = "idle" /\ nupdates < MaxUpdates

\* a step of UpdateStatus: the call or its return
UpdateStatusStep == nupdates' # nupdates \/ upc' # upc

\* C20: while a listener invocation holds the lock, a call of UpdateStatus
\* for any resource can be made and a call under way can return, List, Get
\* and Exists have their results, and the listener itself can return; no
\* step of UpdateStatus takes or releases the lock, and the step on which
\* the listener returns releases it. Start and the invoke of a handler are
\* what waits for the lock.
C20_QueryNeverBlocks ==
    /\ [](active # {} =>
            /\ UpdateDue => \A o \in Objs :
                  ENABLED (UpdateStatusNoWatch(o) \/ UpdateStatusRejected(o) \/ UpdateStatusRemote(o))
            /\ upc = "write" => ENABLED UpdateStatusWrite
            /\ \A kind \in Kinds : \A o \in Objs :
                  /\ List(kind) \subseteq Objs \X (1..MaxToken)
                  /\ Get(kind, QNameOf[o]) # {}
                  /\ Exists(kind, QNameOf[o]) \in BOOLEAN
            /\ \A c \in Callers : spc[c] = "listener" => ENABLED StartListenerReturn(c)
            /\ \A k \in Keys : rpc[k] = "listener" => ENABLED ReflectorListenerReturn(k)
            /\ \A c \in Callers : ~ENABLED StartCall(c)
            /\ \A k \in Keys : ~ENABLED ReflectorInvoke(k))
    /\ [][/\ UpdateStatusStep => UNCHANGED <<mutex, active>>
          /\ (active # {} /\ active' = {}) => mutex' = Free]_vars

\* C20 witness: a listener invocation holds the lock, and UpdateStatus has
\* made its remote call and written the Store of the resource's key.
C20_Witness ==
    /\ active # {}
    /\ mutex # Free
    /\ uret.kind = "ok"
    /\ upc = "idle"
    /\ store[UpdateKey(uret.obj)][uret.obj] = uret.rv
    /\ List("widgets") # {}

\* the keys some registration named
KeysRegistered == Registered \cup {p[1] : p \in replaced}

\* C21: the Registry holds one Watch Entry per key that was registered, the
\* one of the last registration of that key; Start raises the task counter
\* by the number of distinct keys and launches one runner per key; the
\* listener invoke calls for a key is the one of the entry in the map, and
\* the listener of a replaced entry is never called.
C21_OneEntryPerKey ==
    /\ KeysRegistered = Registered
    /\ \A p \in replaced : watches[p[1]] # p[2]
    /\ \A k \in Keys : launches[k] <= 1 /\ (launches[k] = 1 => k \in Registered)
    /\ wgAdded \in {0, Cardinality(KeysRegistered)}
    /\ (starter # NoWatch /\ spc[starter] \in {"wait", "invoke", "listener", "returned"}) =>
          /\ wgAdded = Cardinality(KeysRegistered)
          /\ \A k \in KeysRegistered : launches[k] = 1
    /\ \A p \in called : p[2] = watches[p[1]]
    /\ called \cap replaced = {}

\* C21 witness: a key was registered with L1, then again with L2, a second
\* key once; Start has returned, two runners were launched, and the
\* listeners called are those of the entries in the map.
C21_Witness ==
    /\ replaced = {<<WidgetsAll, "L1">>}
    /\ watches[WidgetsAll] = "L2"
    /\ Cardinality(Registered) = 2
    /\ FirstStartReturned
    /\ wgAdded = 2
    /\ launches[WidgetsAll] = 1
    /\ called = {<<k, watches[k]>> : k \in Registered}
    /\ evInvoked[WidgetsAll] > 0

====
